---------------------------- MODULE Spec2Model ----------------------------
(***************************************************************************)
(* Model of the import-declaration merge engine of                         *)
(* crates/ide-db/src/imports/merge_imports.rs.                             *)
(*                                                                         *)
(* A use tree is a record                                                  *)
(*   [coloncolon, path, star, has_list, use_trees]                         *)
(* path is a sequence of segments (<<>> = the tree has no path), a segment *)
(* is [coloncolon, name] (coloncolon: the segment carries the leading      *)
(* `::` of an absolute path, which is part of the segment's text), star    *)
(* is the glob token, has_list says whether a use-tree list `{..}` is      *)
(* present and use_trees are its children in syntax order.  The tree-level *)
(* coloncolon is the leading `::` of a tree without a path (`::{a, b}`).   *)
(* A declaration (ast::Use) is [vis, attrs, tree].                         *)
(***************************************************************************)
EXTENDS Integers, Sequences, FiniteSets, TLC

(***************************************************************************)
(* Segments and paths                                                      *)
(***************************************************************************)
Names == {"a", "b"}

\* byte order of the identifier texts (str::cmp on NameRef::text)
TextRank(n) == CASE n = "a" -> 1 [] n = "b" -> 2 [] n = "c" -> 3 [] OTHER -> 0

Seg(n) == [coloncolon |-> FALSE, name |-> n]
RootSeg(n) == [coloncolon |-> TRUE, name |-> n]
SelfSeg == Seg("self")

NoPath == << >>

\* PathSegmentKind::Name(_) as opposed to self / super / crate
IsNameKind(seg) == seg.name \in Names

Remove(s, i) == SubSeq(s, 1, i - 1) \o SubSeq(s, i + 1, Len(s))
InsertAt(s, i, e) == SubSeq(s, 1, i - 1) \o <<e>> \o SubSeq(s, i, Len(s))

(***************************************************************************)
(* Use trees                                                               *)
(***************************************************************************)
Leaf(p) == [coloncolon |-> FALSE, path |-> p, star |-> FALSE,
            has_list |-> FALSE, use_trees |-> << >>]
Glob(p) == [coloncolon |-> FALSE, path |-> p, star |-> TRUE,
            has_list |-> FALSE, use_trees |-> << >>]
Group(p, ts) == [coloncolon |-> FALSE, path |-> p, star |-> FALSE,
                 has_list |-> TRUE, use_trees |-> ts]

path_len(p) == Len(p)

path_is_self(p) == Len(p) = 1 /\ p[1].name = "self"

is_simple_path(t) == ~t.has_list /\ ~t.star

\* `<` in place of `<=` in the Module arm
is_tree_allowed_strict(merge, t) ==
    CASE merge = "One" -> TRUE
      [] merge = "Crate" -> TRUE
      [] merge = "Module" -> ~t.has_list /\ path_len(t.path) < 1

\* the Module arm without the test of the path's length
is_tree_allowed_any_length(merge, t) ==
    CASE merge = "One" -> TRUE
      [] merge = "Crate" -> TRUE
      [] merge = "Module" -> ~t.has_list

is_tree_allowed(merge, t) ==
    CASE merge = "One" -> TRUE
      [] merge = "Crate" -> TRUE
      [] merge = "Module" -> ~t.has_list /\ path_len(t.path) <= 1

(***************************************************************************)
(* common_prefix: walk both paths from the first segment while the         *)
(* segments' texts agree.  The result is NoPrefix or the pair of leading   *)
(* sub-paths.                                                              *)
(***************************************************************************)
NoPrefix == [none |-> TRUE]

RECURSIVE common_prefix_loop(_, _, _, _)
common_prefix_loop(lhs, rhs, i, res) ==
    IF i <= Len(lhs) /\ i <= Len(rhs) /\ lhs[i] = rhs[i]
    THEN LET res1 == [none |-> FALSE, lhs |-> SubSeq(lhs, 1, i),
                      rhs |-> SubSeq(rhs, 1, i)]
         IN  IF i < Len(lhs) /\ i < Len(rhs)
             THEN common_prefix_loop(lhs, rhs, i + 1, res1)
             ELSE res1
    ELSE res

\* stops after the first pair of segments
common_prefix_first_segment(lhs, rhs) ==
    IF lhs # NoPath /\ rhs # NoPath /\ lhs[1] = rhs[1]
    THEN [none |-> FALSE, lhs |-> SubSeq(lhs, 1, 1), rhs |-> SubSeq(rhs, 1, 1)]
    ELSE NoPrefix

\* the segments compared by their names, a leading `::` not counted
common_prefix_by_name(lhs, rhs) ==
    LET shorter == IF Len(lhs) <= Len(rhs) THEN Len(lhs) ELSE Len(rhs)
        runs == {n \in 0..shorter : \A i \in 1..n : lhs[i].name = rhs[i].name}
        k == CHOOSE n \in runs : \A m \in runs : m <= n
    IN  IF k = 0 THEN NoPrefix
        ELSE [none |-> FALSE, lhs |-> SubSeq(lhs, 1, k), rhs |-> SubSeq(rhs, 1, k)]

common_prefix(lhs, rhs) == common_prefix_loop(lhs, rhs, 1, NoPrefix)

(***************************************************************************)
(* Comparators                                                             *)
(***************************************************************************)
\* Option<text>::cmp: None (not a Name segment) sorts before every Some
path_segment_cmp(a, b) ==
    CASE ~IsNameKind(a) /\ ~IsNameKind(b) -> "Equal"
      [] ~IsNameKind(a) /\ IsNameKind(b) -> "Less"
      [] IsNameKind(a) /\ ~IsNameKind(b) -> "Greater"
      [] OTHER -> IF TextRank(a.name) < TextRank(b.name) THEN "Less"
                  ELSE IF TextRank(a.name) > TextRank(b.name) THEN "Greater"
                  ELSE "Equal"

RECURSIVE path_cmp_short_from(_, _, _)
path_cmp_short_from(a, b, i) ==
    IF i > Len(a) \/ i > Len(b) THEN "Equal"
    ELSE LET ord == path_segment_cmp(a[i], b[i])
         IN  IF ord = "Equal" THEN path_cmp_short_from(a, b, i + 1) ELSE ord

path_cmp_short(a, b) == path_cmp_short_from(a, b, 1)

path_cmp_for_sort(a, b) ==
    CASE a = NoPath /\ b = NoPath -> "Equal"
      [] a = NoPath /\ b # NoPath -> "Less"
      [] a # NoPath /\ b = NoPath -> "Greater"
      [] OTHER ->
           CASE path_is_self(a) /\ path_is_self(b) -> "Equal"
             [] path_is_self(a) /\ ~path_is_self(b) -> "Less"
             [] ~path_is_self(a) /\ path_is_self(b) -> "Greater"
             [] OTHER -> path_cmp_short(a, b)

path_cmp_bin_search(lhs, rhs) ==
    CASE lhs = NoPath /\ rhs = NoPath -> "Equal"
      [] lhs = NoPath /\ rhs # NoPath -> "Less"
      [] lhs # NoPath /\ rhs = NoPath -> "Greater"
      [] OTHER -> path_segment_cmp(lhs[1], rhs[1])

\* zip_longest of the two segment iterators, from position i on
RECURSIVE use_tree_path_cmp_from(_, _, _, _, _)
use_tree_path_cmp_from(a, a_has_tl, b, b_has_tl, i) ==
    IF i > Len(a) /\ i > Len(b) THEN "Equal"
    ELSE IF i <= Len(a) /\ i <= Len(b)
    THEN LET ord == path_segment_cmp(a[i], b[i])
         IN  IF ord = "Equal"
             THEN use_tree_path_cmp_from(a, a_has_tl, b, b_has_tl, i + 1)
             ELSE ord
    ELSE IF i <= Len(a)
    THEN (IF ~b_has_tl THEN "Greater" ELSE "Less")
    ELSE (IF ~a_has_tl THEN "Less" ELSE "Greater")

\* the tree lists not looked at
use_tree_path_cmp_no_tl(a, a_has_tl, b, b_has_tl) == path_cmp_short(a, b)

use_tree_path_cmp(a, a_has_tl, b, b_has_tl) ==
    use_tree_path_cmp_from(a, a_has_tl, b, b_has_tl, 1)


(***************************************************************************)
(* Tree editing operations of the syntax crate (ast::edit_in_place, ted)   *)
(***************************************************************************)
\* UseTree::split_prefix with a prefix of k leading segments of t.path:
\*   prefix::suffix -> prefix::{suffix},  prefix -> prefix::{self},
\*   prefix::* -> prefix::{*},  prefix::{..} is left as it is
split_prefix(t, k) ==
    IF Len(t.path) = k /\ ~t.has_list
    THEN Group(t.path, << IF t.star THEN Glob(NoPath) ELSE Leaf(<<SelfSeg>>) >>)
    ELSE IF Len(t.path) = k
    THEN t
    ELSE Group(SubSeq(t.path, 1, k),
               << [t EXCEPT !.path = SubSeq(t.path, k + 1, Len(t.path))] >>)

\* UseTree::get_or_create_use_tree_list
get_or_create_use_tree_list(t) == [t EXCEPT !.has_list = TRUE]

\* UseTreeList::add_use_tree: the new tree goes after the last one
add_use_tree(t, use_tree) == [t EXCEPT !.use_trees = Append(@, use_tree)]

(***************************************************************************)
(* recursive_merge                                                         *)
(*                                                                         *)
(* The local vector use_trees holds handles to children of lhs; it is      *)
(* modelled as a sequence of indices into lhs.use_trees.  Children moved   *)
(* out of rhs (ted::replace, add_use_tree) leave rhs.use_trees; the        *)
(* iterator over rhs's children already holds the next sibling then.       *)
(***************************************************************************)
\* slice::sort_unstable_by on a short slice: insertion sort, an element
\* moves left while it is strictly less than its predecessor
RECURSIVE insert_tail(_, _, _)
insert_tail(sorted, e, ts) ==
    IF sorted = << >> THEN <<e>>
    ELSE IF path_cmp_for_sort(ts[e].path, ts[sorted[Len(sorted)]].path) = "Less"
    THEN Append(insert_tail(SubSeq(sorted, 1, Len(sorted) - 1), e, ts),
                sorted[Len(sorted)])
    ELSE Append(sorted, e)

RECURSIVE sort_unstable_by_from(_, _, _)
sort_unstable_by_from(sorted, i, ts) ==
    IF i > Len(ts) THEN sorted
    ELSE sort_unstable_by_from(insert_tail(sorted, i, ts), i + 1, ts)

\* the handles left in syntax order
sort_unstable_by_nothing(ts) == [i \in 1..Len(ts) |-> i]

sort_unstable_by(ts) == sort_unstable_by_from(<< >>, 1, ts)

\* slice::binary_search_by over the handles; left and right are 0-based as
\* in the standard library, the returned idx is a 1-based position
RECURSIVE binary_search_loop(_, _, _, _, _)
binary_search_loop(use_trees, ts, rhs_path, left, right) ==
    IF left >= right THEN [found |-> FALSE, idx |-> left + 1]
    ELSE LET mid == left + ((right - left) \div 2)
             cmp == path_cmp_bin_search(ts[use_trees[mid + 1]].path, rhs_path)
         IN  CASE cmp = "Less" ->
                    binary_search_loop(use_trees, ts, rhs_path, mid + 1, right)
               [] cmp = "Greater" ->
                    binary_search_loop(use_trees, ts, rhs_path, left, mid)
               [] OTHER -> [found |-> TRUE, idx |-> mid + 1]

binary_search_by(use_trees, ts, rhs_path) ==
    binary_search_loop(use_trees, ts, rhs_path, 0, Len(use_trees))

tree_is_self(t) == t.path # NoPath /\ path_is_self(t.path)

\* Some(true) / Some(false) / None
tree_contains_self(t) ==
    IF t.has_list
    THEN IF \E i \in 1..Len(t.use_trees) : tree_is_self(t.use_trees[i])
         THEN "SomeTrue" ELSE "SomeFalse"
    ELSE IF t.star THEN "SomeFalse" ELSE "None"

\* line 207 with the test of the left side only
same_path_lhs_only(lhs_t, rhs_t, prefix) ==
    prefix.lhs = lhs_t.path

\* line 207: the common prefix is the whole of both paths
same_path(lhs_t, rhs_t, prefix) ==
    prefix.lhs = lhs_t.path /\ prefix.rhs = rhs_t.path

\* the plain-path test without the test that the paths are the same
both_simple_any_prefix(lhs_t, rhs_t, prefix) ==
    is_simple_path(lhs_t) /\ is_simple_path(rhs_t)

\* lines 207 and 232: the two trees are the same plain path
both_simple(lhs_t, rhs_t, prefix) ==
    same_path(lhs_t, rhs_t, prefix)
      /\ is_simple_path(lhs_t) /\ is_simple_path(rhs_t)

RECURSIVE recursive_merge(_, _, _)
RECURSIVE merge_step(_, _, _, _, _)

\* lines 193-251, one pass through the body of the for loop over rhs's
\* children.  pos is the position in rhs.use_trees of the child the
\* iterator yields.  The result says whether the loop goes on (ok) or the
\* function returns None, and gives the trees, the vector and the position
\* of the child the iterator yields next.
merge_step(lhs, rhs, use_trees, pos, merge) ==
    LET rhs_t == rhs.use_trees[pos]
        fail == [ok |-> FALSE, lhs |-> lhs, rhs |-> rhs,
                 use_trees |-> use_trees, pos |-> pos]
        continue == [ok |-> TRUE, lhs |-> lhs, rhs |-> rhs,
                     use_trees |-> use_trees, pos |-> pos + 1]
        search == binary_search_by(use_trees, lhs.use_trees, rhs_t.path)
    IN
    IF ~is_tree_allowed(merge, rhs_t) THEN fail
    ELSE IF search.found
    THEN LET li == use_trees[search.idx]
             lhs_t == lhs.use_trees[li]
             prefix == common_prefix(lhs_t.path, rhs_t.path)
         IN
         IF lhs_t.path = NoPath \/ rhs_t.path = NoPath THEN fail
         ELSE IF prefix.none THEN fail
         ELSE
         LET same == same_path(lhs_t, rhs_t, prefix)
             k == Len(prefix.lhs)
         IN
         IF same /\ tree_contains_self(lhs_t) = "SomeTrue"
                 /\ tree_contains_self(rhs_t) = "None"
         THEN continue
         ELSE IF same /\ tree_contains_self(lhs_t) = "None"
                      /\ tree_contains_self(rhs_t) = "SomeTrue"
         THEN \* ted::replace moves rhs_t out of rhs into lhs_t's place
              [ok |-> TRUE,
               lhs |-> [lhs EXCEPT !.use_trees[li] = rhs_t],
               rhs |-> [rhs EXCEPT !.use_trees = Remove(@, pos)],
               use_trees |-> use_trees, pos |-> pos]
         ELSE IF both_simple(lhs_t, rhs_t, prefix)
         THEN continue
         ELSE
         LET r == recursive_merge(split_prefix(lhs_t, k), split_prefix(rhs_t, k),
                                  merge)
         IN  [ok |-> r.ok,
              lhs |-> [lhs EXCEPT !.use_trees[li] = r.lhs],
              rhs |-> [rhs EXCEPT !.use_trees[pos] = r.rhs],
              use_trees |-> use_trees,
              pos |-> IF r.ok THEN pos + 1 ELSE pos]
    ELSE IF merge = "Module" /\ use_trees # << >> /\ rhs_t.has_list
    THEN fail
    ELSE LET lhs1 == add_use_tree(get_or_create_use_tree_list(lhs), rhs_t)
         IN  [ok |-> TRUE,
              lhs |-> lhs1,
              rhs |-> [rhs EXCEPT !.use_trees = Remove(@, pos)],
              use_trees |-> InsertAt(use_trees, search.idx, Len(lhs1.use_trees)),
              pos |-> pos]

\* the for loop: pass after pass until the iterator is exhausted or a pass
\* returns None
RECURSIVE merge_loop(_, _, _, _, _)
merge_loop(lhs, rhs, use_trees, pos, merge) ==
    IF pos > Len(rhs.use_trees) THEN [ok |-> TRUE, lhs |-> lhs, rhs |-> rhs]
    ELSE LET s == merge_step(lhs, rhs, use_trees, pos, merge)
         IN  IF ~s.ok THEN [ok |-> FALSE, lhs |-> s.lhs, rhs |-> s.rhs]
             ELSE merge_loop(s.lhs, s.rhs, s.use_trees, s.pos, merge)

NoUseTrees == [none |-> TRUE]

\* the vector sorted without the test of the children
allowed_use_trees_unchecked(lhs, merge) ==
    [none |-> FALSE, use_trees |-> sort_unstable_by(lhs.use_trees)]

\* lines 184-192: the children of lhs collected into the vector use_trees,
\* or nothing when one of them is not allowed, and the vector sorted
allowed_use_trees(lhs, merge) ==
    IF \E i \in 1..Len(lhs.use_trees) : ~is_tree_allowed(merge, lhs.use_trees[i])
    THEN NoUseTrees
    ELSE [none |-> FALSE, use_trees |-> sort_unstable_by(lhs.use_trees)]

recursive_merge(lhs, rhs, merge) ==
    LET collected == allowed_use_trees(lhs, merge)
    IN  IF collected.none THEN [ok |-> FALSE, lhs |-> lhs, rhs |-> rhs]
        ELSE merge_loop(lhs, rhs, collected.use_trees, 1, merge)

\* try_merge_trees_mut
try_merge_trees_mut(lhs, rhs, merge) ==
    LET prefix == common_prefix(lhs.path, rhs.path)
    IN
    IF lhs.path = NoPath \/ rhs.path = NoPath
    THEN [ok |-> FALSE, lhs |-> lhs, rhs |-> rhs]
    ELSE IF prefix.none
    THEN [ok |-> FALSE, lhs |-> lhs, rhs |-> rhs]
    ELSE IF ~(is_simple_path(lhs) /\ is_simple_path(rhs)
              /\ lhs.path = prefix.lhs /\ rhs.path = prefix.rhs)
    THEN recursive_merge(split_prefix(lhs, Len(prefix.lhs)),
                         split_prefix(rhs, Len(prefix.rhs)), merge)
    ELSE recursive_merge(lhs, rhs, merge)

(***************************************************************************)
(* merge_trees_into_one: the flatten fallback                              *)
(***************************************************************************)
\* is there a leading `::` token
leading_coloncolon(use_tree) ==
    IF use_tree.path # NoPath THEN use_tree.path[1].coloncolon
    ELSE use_tree.coloncolon

\* ted::remove of the token leading_coloncolon found
remove_coloncolon(use_tree) ==
    IF use_tree.path # NoPath
    THEN [use_tree EXCEPT !.path[1].coloncolon = FALSE]
    ELSE [use_tree EXCEPT !.coloncolon = FALSE]

\* the new list filled from rhs first
into_one_rhs_first(lhs, rhs) ==
    LET lhs_has_cc == leading_coloncolon(lhs)
        rhs_has_cc == leading_coloncolon(rhs)
        both_have_cc == lhs_has_cc /\ rhs_has_cc
        lhs1 == IF both_have_cc THEN remove_coloncolon(lhs) ELSE lhs
        rhs1 == IF both_have_cc THEN remove_coloncolon(rhs) ELSE rhs
        lhs_whole == lhs.path # NoPath \/ (lhs_has_cc /\ ~rhs_has_cc)
        rhs_whole == rhs.path # NoPath \/ (rhs_has_cc /\ ~lhs_has_cc)
        from_lhs == IF lhs_whole THEN <<lhs1>> ELSE lhs1.use_trees
        from_rhs == IF rhs_whole THEN <<rhs1>> ELSE rhs1.use_trees
    IN
    IF (~lhs_whole /\ ~lhs.has_list) \/ (~rhs_whole /\ ~rhs.has_list)
    THEN [ok |-> FALSE, lhs |-> lhs1, rhs |-> rhs1]
    ELSE [ok |-> TRUE,
          lhs |-> [coloncolon |-> both_have_cc, path |-> NoPath,
                   star |-> FALSE, has_list |-> TRUE,
                   use_trees |-> from_rhs \o from_lhs],
          rhs |-> rhs1]

\* lines 97-152 and 178: the work of merge_trees_into_one once the policy
\* is known to be One.  ted::replace_with_many puts the new list in lhs's
\* place.
into_one(lhs, rhs) ==
    LET lhs_has_cc == leading_coloncolon(lhs)
        lhs_has_path == lhs.path # NoPath
        lhs_has_tree == lhs.has_list
        rhs_has_cc == leading_coloncolon(rhs)
        rhs_has_path == rhs.path # NoPath
        rhs_has_tree == rhs.has_list
        both_have_cc == lhs_has_cc /\ rhs_has_cc
        lhs1 == IF both_have_cc THEN remove_coloncolon(lhs) ELSE lhs
        rhs1 == IF both_have_cc THEN remove_coloncolon(rhs) ELSE rhs
        fail == [ok |-> FALSE, lhs |-> lhs1, rhs |-> rhs1]
        from_lhs == IF lhs_has_path \/ (lhs_has_cc /\ ~rhs_has_cc) THEN <<lhs1>>
                    ELSE lhs1.use_trees
        from_rhs == IF rhs_has_path \/ (rhs_has_cc /\ ~lhs_has_cc) THEN <<rhs1>>
                    ELSE rhs1.use_trees
        replacement == [coloncolon |-> both_have_cc, path |-> NoPath,
                        star |-> FALSE, has_list |-> TRUE,
                        use_trees |-> from_lhs \o from_rhs]
    IN
    IF ~(lhs_has_path \/ (lhs_has_cc /\ ~rhs_has_cc)) /\ ~lhs_has_tree THEN fail
    ELSE IF ~(rhs_has_path \/ (rhs_has_cc /\ ~lhs_has_cc)) /\ ~rhs_has_tree
    THEN fail
    ELSE [ok |-> TRUE, lhs |-> replacement, rhs |-> rhs1]

\* without the early return for the other policies
merge_trees_into_one_any_policy(lhs, rhs, merge) == into_one(lhs, rhs)

merge_trees_into_one(lhs, rhs, merge) ==
    IF merge # "One" THEN [ok |-> FALSE, lhs |-> lhs, rhs |-> rhs]
    ELSE into_one(lhs, rhs)

(***************************************************************************)
(* The equality gate                                                       *)
(***************************************************************************)
NoVis == [kind |-> "none", path |-> << >>]

\* syntax_helpers::node_ext::vis_eq: same kind, and for pub(in path) the
\* same path
vis_eq(vis0, vis1) ==
    vis0.kind = vis1.kind /\ (vis0.kind = "in" => vis0.path = vis1.path)

\* the last arm accepting instead of refusing
eq_visibility_lax(vis0, vis1) ==
    CASE vis0 = NoVis /\ vis1 = NoVis -> TRUE
      [] vis0 # NoVis /\ vis1 # NoVis -> vis_eq(vis0, vis1)
      [] OTHER -> TRUE

eq_visibility(vis0, vis1) ==
    CASE vis0 = NoVis /\ vis1 = NoVis -> TRUE
      [] vis0 # NoVis /\ vis1 # NoVis -> vis_eq(vis0, vis1)
      [] OTHER -> FALSE

\* the token texts of all attributes, one after the other
RECURSIVE tokens(_)
tokens(attrs) ==
    IF attrs = << >> THEN << >> ELSE Head(attrs) \o tokens(Tail(attrs))

\* stdx::iter_eq_by over the two token streams
RECURSIVE iter_eq_by(_, _)
iter_eq_by(toks0, toks1) ==
    IF toks0 = << >> \/ toks1 = << >> THEN toks0 = << >> /\ toks1 = << >>
    ELSE Head(toks0) = Head(toks1) /\ iter_eq_by(Tail(toks0), Tail(toks1))

\* the comparison the FIXME asks for: the order of the attributes ignored
eq_attrs_unordered(attrs0, attrs1) ==
    /\ Len(attrs0) = Len(attrs1)
    /\ {attrs0[i] : i \in 1..Len(attrs0)} = {attrs1[i] : i \in 1..Len(attrs1)}

eq_attrs(attrs0, attrs1) == iter_eq_by(tokens(attrs0), tokens(attrs1))

(***************************************************************************)
(* Bounded input universe                                                  *)
(***************************************************************************)
MaxPathLen == 3
MaxKids == 2
MaxAttrs == 2

Behaviors == {"One", "Crate", "Module"}

RECURSIVE PathsOfLen(_)
PathsOfLen(n) ==
    IF n = 0 THEN {NoPath}
    ELSE {Append(p, Seg(x)) : p \in PathsOfLen(n - 1), x \in Names}

PathsUpTo(n) == UNION {PathsOfLen(i) : i \in 1..n}

\* `::p`
Rooted(t) ==
    IF t.path = NoPath THEN [t EXCEPT !.coloncolon = TRUE]
    ELSE [t EXCEPT !.path[1].coloncolon = TRUE]

\* children a written group may have: self, *, a single name, and a nested
\* group under the first name holding self and a name
FirstName == "a"
SecondName == "b"

KidTrees ==
    {Leaf(<<SelfSeg>>), Glob(NoPath)}
      \cup {Leaf(p) : p \in PathsOfLen(1)}
      \cup {Group(<<Seg(FirstName)>>, <<Leaf(<<SelfSeg>>), Leaf(<<Seg(SecondName)>>)>>)}

RECURSIVE KidLists(_)
KidLists(n) ==
    IF n = 0 THEN {<< >>}
    ELSE KidLists(n - 1)
           \cup {Append(ts, t) : ts \in {l \in KidLists(n - 1) : Len(l) = n - 1},
                                 t \in KidTrees}

BareTrees == {Leaf(p) : p \in PathsUpTo(MaxPathLen)}
GlobTrees == {Glob(p) : p \in {NoPath} \cup PathsUpTo(MaxPathLen - 1)}
GroupTrees == {Group(p, ts) : p \in {NoPath, <<Seg(FirstName)>>},
                              ts \in KidLists(MaxKids)}
RootedTrees == {Rooted(t) : t \in {u \in BareTrees \cup GlobTrees : Len(u.path) <= 1}}

\* a::{self, x::y}: a group holding self and a two-segment path
SelfGroupTrees ==
    {Group(<<Seg(FirstName)>>, <<Leaf(<<SelfSeg>>), Leaf(<<Seg(x), Seg(y)>>)>>) :
        x \in Names, y \in Names}

Trees == BareTrees \cup GlobTrees \cup GroupTrees \cup RootedTrees
           \cup SelfGroupTrees

Visibilities ==
    {NoVis, [kind |-> "pub", path |-> << >>], [kind |-> "crate", path |-> << >>]}
      \cup {[kind |-> "in", path |-> p] : p \in PathsOfLen(1)}

Attr(x) == <<"#", "[", x, "]">>
AttrNames == {"x", "y"}

RECURSIVE AttrLists(_)
AttrLists(n) ==
    IF n = 0 THEN {<< >>}
    ELSE AttrLists(n - 1)
           \cup {Append(as, Attr(x)) : as \in {l \in AttrLists(n - 1) : Len(l) = n - 1},
                                       x \in AttrNames}

\* declarations: every tree without visibility and attributes, and every
\* visibility and attribute list on a single-segment import
Uses ==
    {[vis |-> NoVis, attrs |-> << >>, tree |-> t] : t \in Trees}
      \cup {[vis |-> v, attrs |-> as, tree |-> Leaf(p)] :
               v \in Visibilities, as \in AttrLists(MaxAttrs),
               p \in {<<Seg(FirstName)>>}}

(***************************************************************************)
(* The calls try_merge_imports(lhs, rhs, merge) and                        *)
(* try_merge_trees(lhs, rhs, merge)                                        *)
(***************************************************************************)
VARIABLES
    lhs, rhs,   \* the caller's nodes (ast::Use records; try_merge_trees is
                \* given their trees only, the records then have no
                \* visibility and no attributes)
    merge,      \* the MergeBehavior
    pc,         \* position in the called function; at the start, the name
                \* of the function called
    lhs_tree,   \* the function's local trees: [node, tree], node being the
    rhs_tree,   \* syntax node the local handle points at
    result,     \* the returned Option
    use_trees,  \* recursive_merge's vector of handles to lhs's children and
    pos         \* the position its iterator over rhs's children is at
                \* (both unused while recursive_merge runs inside a step)

vars == <<lhs, rhs, merge, pc, lhs_tree, rhs_tree, result, use_trees, pos>>

NoTree == [absent |-> TRUE]
None == [some |-> FALSE]
Some(x) == [some |-> TRUE, value |-> x]

\* x.clone(): a second handle to the same node
clone_handle(node) == node

\* x.clone_subtree().clone_for_update(): a handle to a new, independent
\* node with the same content
clone_subtree(node) == "copy of " \o node

\* an edit through a handle changes the caller's node only if the handle
\* points at it
Edited(use, name, handle, tree) ==
    IF handle.node = name THEN [use EXCEPT !.tree = tree] ELSE use

Init ==
    /\ pc \in {"try_merge_imports", "try_merge_trees"}
    /\ lhs \in Uses
    /\ rhs \in Uses
    /\ pc = "try_merge_trees" => /\ lhs.vis = NoVis /\ lhs.attrs = << >>
                                 /\ rhs.vis = NoVis /\ rhs.attrs = << >>
    /\ merge \in Behaviors
    /\ lhs_tree = NoTree
    /\ rhs_tree = NoTree
    /\ result = None
    /\ use_trees = << >>
    /\ pos = 0

\* try_merge_imports: one of the two early returns of the gate
GateFail ==
    /\ pc = "try_merge_imports"
    /\ ~eq_visibility(lhs.vis, rhs.vis) \/ ~eq_attrs(lhs.attrs, rhs.attrs)
    /\ pc' = "done"
    /\ result' = None
    /\ UNCHANGED <<lhs, rhs, merge, lhs_tree, rhs_tree, use_trees, pos>>

\* try_merge_imports: the gate passes and both sides are copied
GatePass ==
    /\ pc = "try_merge_imports"
    /\ eq_visibility(lhs.vis, rhs.vis)
    /\ eq_attrs(lhs.attrs, rhs.attrs)
    /\ lhs_tree' = [node |-> clone_subtree("lhs"), tree |-> lhs.tree]
    /\ rhs_tree' = [node |-> clone_subtree("rhs"), tree |-> rhs.tree]
    /\ pc' = "try_merge_trees_mut"
    /\ UNCHANGED <<lhs, rhs, merge, result, use_trees, pos>>

\* try_merge_trees: both sides are copied
CloneTrees ==
    /\ pc = "try_merge_trees"
    /\ lhs_tree' = [node |-> clone_subtree("lhs"), tree |-> lhs.tree]
    /\ rhs_tree' = [node |-> clone_subtree("rhs"), tree |-> rhs.tree]
    /\ pc' = "try_merge_trees_mut"
    /\ UNCHANGED <<lhs, rhs, merge, result, use_trees, pos>>

\* the call try_merge_trees_mut(&lhs, &rhs, merge)
TryMergeTreesMut ==
    /\ pc = "try_merge_trees_mut"
    /\ LET r == try_merge_trees_mut(lhs_tree.tree, rhs_tree.tree, merge)
       IN  /\ lhs_tree' = [lhs_tree EXCEPT !.tree = r.lhs]
           /\ rhs_tree' = [rhs_tree EXCEPT !.tree = r.rhs]
           /\ lhs' = Edited(lhs, "lhs", lhs_tree, r.lhs)
           /\ rhs' = Edited(rhs, "rhs", rhs_tree, r.rhs)
           /\ pc' = IF r.ok THEN "return" ELSE "or_else"
    /\ UNCHANGED <<merge, result, use_trees, pos>>

\* .or_else(|| merge_trees_into_one(&lhs, &rhs, merge))?
MergeTreesIntoOne ==
    /\ pc = "or_else"
    /\ LET r == merge_trees_into_one(lhs_tree.tree, rhs_tree.tree, merge)
       IN  /\ lhs_tree' = [lhs_tree EXCEPT !.tree = r.lhs]
           /\ rhs_tree' = [rhs_tree EXCEPT !.tree = r.rhs]
           /\ lhs' = Edited(lhs, "lhs", lhs_tree, r.lhs)
           /\ rhs' = Edited(rhs, "rhs", rhs_tree, r.rhs)
           /\ pc' = IF r.ok THEN "return_one" ELSE "done"
    /\ result' = None
    /\ UNCHANGED <<merge, use_trees, pos>>

\* Some(lhs)
Return ==
    /\ pc \in {"return", "return_one"}
    /\ result' = Some([vis |-> lhs.vis, attrs |-> lhs.attrs,
                       tree |-> lhs_tree.tree])
    /\ pc' = "done"
    /\ UNCHANGED <<lhs, rhs, merge, lhs_tree, rhs_tree, use_trees, pos>>

Next ==
    \/ GateFail
    \/ GatePass
    \/ CloneTrees
    \/ TryMergeTreesMut
    \/ MergeTreesIntoOne
    \/ Return

Spec == Init /\ [][Next]_vars

(***************************************************************************)
(* The call recursive_merge(lhs, rhs, merge), pass by pass.  lhs and rhs   *)
(* keep the two trees as they were when the call began, lhs_tree and       *)
(* rhs_tree are the nodes the function edits.                              *)
(***************************************************************************)
CrateSeg == Seg("crate")

\* children of the groups recursive_merge is called on: self, *, a single
\* name, a two-segment path and a path that begins with `crate`
MergeKidTrees ==
    {Leaf(<<SelfSeg>>), Glob(NoPath)}
      \cup {Leaf(p) : p \in PathsOfLen(1)}
      \cup {Leaf(<<Seg(FirstName), Seg(SecondName)>>),
            Leaf(<<CrateSeg, Seg(FirstName)>>)}

RECURSIVE MergeKidLists(_)
MergeKidLists(n) ==
    IF n = 0 THEN {<< >>}
    ELSE MergeKidLists(n - 1)
           \cup {Append(ts, t) : ts \in {l \in MergeKidLists(n - 1) : Len(l) = n - 1},
                                 t \in MergeKidTrees}

MergeTrees ==
    {Group(<<Seg(FirstName)>>, ts) : ts \in MergeKidLists(MaxKids)}

InitMerge ==
    /\ pc = "recursive_merge"
    /\ lhs \in {[vis |-> NoVis, attrs |-> << >>, tree |-> t] : t \in MergeTrees}
    /\ rhs \in {[vis |-> NoVis, attrs |-> << >>, tree |-> t] : t \in MergeTrees}
    /\ merge \in Behaviors
    /\ lhs_tree = [node |-> clone_subtree("lhs"), tree |-> lhs.tree]
    /\ rhs_tree = [node |-> clone_subtree("rhs"), tree |-> rhs.tree]
    /\ result = None
    /\ use_trees = << >>
    /\ pos = 0

\* lines 184-192: the children of lhs are collected and sorted, or the
\* function returns None
Collect ==
    /\ pc = "recursive_merge"
    /\ LET collected == allowed_use_trees(lhs_tree.tree, merge)
       IN  IF collected.none
           THEN /\ pc' = "done"
                /\ UNCHANGED <<use_trees, pos>>
           ELSE /\ use_trees' = collected.use_trees
                /\ pos' = 1
                /\ pc' = "for"
    /\ UNCHANGED <<lhs, rhs, merge, lhs_tree, rhs_tree, result>>

\* lines 193-252: one pass through the loop, for the child of rhs at pos
ForPass ==
    /\ pc = "for"
    /\ pos <= Len(rhs_tree.tree.use_trees)
    /\ LET s == merge_step(lhs_tree.tree, rhs_tree.tree, use_trees, pos, merge)
       IN  /\ lhs_tree' = [lhs_tree EXCEPT !.tree = s.lhs]
           /\ rhs_tree' = [rhs_tree EXCEPT !.tree = s.rhs]
           /\ use_trees' = s.use_trees
           /\ pos' = s.pos
           /\ pc' = IF s.ok THEN "for" ELSE "done"
    /\ UNCHANGED <<lhs, rhs, merge, result>>

\* line 253: Some(())
ForEnd ==
    /\ pc = "for"
    /\ pos > Len(rhs_tree.tree.use_trees)
    /\ result' = Some(<< >>)
    /\ pc' = "done"
    /\ UNCHANGED <<lhs, rhs, merge, lhs_tree, rhs_tree, use_trees, pos>>

NextMerge ==
    \/ Collect
    \/ ForPass
    \/ ForEnd

SpecMerge == InitMerge /\ [][NextMerge]_vars

(***************************************************************************)
(* The calls common_prefix(lhs, rhs) and                                   *)
(* use_tree_path_cmp(a, a_has_tl, b, b_has_tl).  lhs and rhs hold the two  *)
(* paths with their has_tl flags; the policy, the trees and the locals of  *)
(* recursive_merge play no part.                                           *)
(***************************************************************************)
AnySegs == {Seg(x) : x \in Names \cup {"self", "crate"}}

RECURSIVE AnyPathsOfLen(_)
AnyPathsOfLen(n) ==
    IF n = 0 THEN {NoPath}
    ELSE {Append(p, seg) : p \in AnyPathsOfLen(n - 1), seg \in AnySegs}

AnyPaths == UNION {AnyPathsOfLen(i) : i \in 1..MaxPathLen}

\* `::p` for the paths that begin with a name
RootedPaths ==
    {[p EXCEPT ![1].coloncolon = TRUE] : p \in {q \in AnyPaths : IsNameKind(q[1])}}

InitPaths ==
    /\ pc \in {"common_prefix", "use_tree_path_cmp"}
    /\ lhs \in [path : AnyPaths \cup RootedPaths, has_tl : BOOLEAN]
    /\ rhs \in [path : AnyPaths \cup RootedPaths, has_tl : BOOLEAN]
    /\ pc = "common_prefix" => ~lhs.has_tl /\ ~rhs.has_tl
    /\ pc = "use_tree_path_cmp" => lhs.path \in AnyPaths /\ rhs.path \in AnyPaths
    /\ merge = "One"
    /\ lhs_tree = NoTree
    /\ rhs_tree = NoTree
    /\ result = None
    /\ use_trees = << >>
    /\ pos = 0

CommonPrefix ==
    /\ pc = "common_prefix"
    /\ LET res == common_prefix(lhs.path, rhs.path)
       IN  result' = IF res.none THEN None ELSE Some(<<res.lhs, res.rhs>>)
    /\ pc' = "common_prefix: return"
    /\ UNCHANGED <<lhs, rhs, merge, lhs_tree, rhs_tree, use_trees, pos>>

UseTreePathCmp ==
    /\ pc = "use_tree_path_cmp"
    /\ result' = Some(use_tree_path_cmp(lhs.path, lhs.has_tl, rhs.path, rhs.has_tl))
    /\ pc' = "use_tree_path_cmp: return"
    /\ UNCHANGED <<lhs, rhs, merge, lhs_tree, rhs_tree, use_trees, pos>>

NextPaths ==
    \/ CommonPrefix
    \/ UseTreePathCmp

SpecPaths == InitPaths /\ [][NextPaths]_vars

(***************************************************************************)
(* The concrete paths a tree denotes.  A path is the sequence of its       *)
(* segment texts, "::" standing for a leading root qualifier and "*" for a *)
(* glob; a `self` entry of a group denotes the group's own path.           *)
(***************************************************************************)
RECURSIVE texts(_)
texts(path) ==
    IF path = NoPath THEN << >>
    ELSE (IF Head(path).coloncolon THEN <<"::">> ELSE << >>)
           \o <<Head(path).name>> \o texts(Tail(path))

RECURSIVE paths_under(_, _)
paths_under(prefix, t) ==
    LET full == prefix \o (IF t.coloncolon THEN <<"::">> ELSE << >>) \o texts(t.path)
    IN  IF t.has_list
        THEN UNION {paths_under(full, t.use_trees[i]) : i \in 1..Len(t.use_trees)}
        ELSE IF t.star THEN {Append(full, "*")}
        ELSE IF Len(full) > 1 /\ full[Len(full)] = "self"
        THEN {SubSeq(full, 1, Len(full) - 1)}
        ELSE {full}

denoted_paths(t) == paths_under(<< >>, t)

Returned == pc = "done" /\ result.some
NotMergeable == pc = "done" /\ ~result.some

GateOpen == eq_visibility(lhs.vis, rhs.vis) /\ eq_attrs(lhs.attrs, rhs.attrs)

\* a plain path: no glob, no list, no root qualifier
IsBarePath(t) ==
    /\ t.path # NoPath
    /\ ~t.star /\ ~t.has_list /\ ~t.coloncolon
    /\ \A i \in 1..Len(t.path) : ~t.path[i].coloncolon /\ IsNameKind(t.path[i])

\* p::x and p::y with a non-empty p and x # y
SameModule(t, u) ==
    /\ IsBarePath(t) /\ IsBarePath(u)
    /\ Len(t.path) = Len(u.path)
    /\ Len(t.path) >= 2
    /\ SubSeq(t.path, 1, Len(t.path) - 1) = SubSeq(u.path, 1, Len(u.path) - 1)
    /\ t.path[Len(t.path)] # u.path[Len(u.path)]

NoCommonPrefix(t, u) ==
    t.path = NoPath \/ u.path = NoPath \/ t.path[1] # u.path[1]

RECURSIVE canonically_sorted(_)
canonically_sorted(t) ==
    /\ \A i \in 1..(Len(t.use_trees) - 1) :
          path_cmp_for_sort(t.use_trees[i].path, t.use_trees[i + 1].path) # "Greater"
    /\ \A i \in 1..Len(t.use_trees) : canonically_sorted(t.use_trees[i])

(***************************************************************************)
(* C1  Set-preservation: whenever a call returns a merged tree, under any  *)
(* policy and by either route, the paths the merged tree denotes are       *)
(* exactly the paths denoted by the caller's lhs together with those       *)
(* denoted by the caller's rhs.                                            *)
(***************************************************************************)
SetPreservation ==
    Returned =>
        denoted_paths(result.value.tree)
            = denoted_paths(lhs.tree) \cup denoted_paths(rhs.tree)

\* a merge by the recursive merger of two groups neither of which covers
\* the other
SetPreservationWitness ==
    /\ Returned
    /\ merge = "Crate"
    /\ ~(denoted_paths(lhs.tree) \subseteq denoted_paths(rhs.tree))
    /\ ~(denoted_paths(rhs.tree) \subseteq denoted_paths(lhs.tree))
    /\ Len(lhs.tree.use_trees) = 2
    /\ Len(rhs.tree.use_trees) = 2
    /\ Cardinality(denoted_paths(result.value.tree)) = 3

(***************************************************************************)
(* C2  The caller's declarations are never modified: no step of            *)
(* try_merge_imports or try_merge_trees changes lhs or rhs, also when the  *)
(* call fails after the working copies were already split or merged.       *)
(***************************************************************************)
CallerUnchanged == [][lhs' = lhs /\ rhs' = rhs]_vars

\* a failed call whose working copies were edited before the failure
CallerUnchangedWitness ==
    /\ NotMergeable
    /\ lhs_tree # NoTree
    /\ lhs_tree.tree # lhs.tree
    /\ rhs_tree.tree # rhs.tree

(***************************************************************************)
(* C3  Canonical ordering: in the tree a successful merge returns, every   *)
(* group's children are non-decreasing under path_cmp_for_sort.            *)
(***************************************************************************)
CanonicalOrdering == Returned => canonically_sorted(result.value.tree)

(***************************************************************************)
(* C4  Gate short-circuit on visibility: when the two declarations'        *)
(* visibilities differ, try_merge_imports never copies a tree and its      *)
(* only step is the return of the not-mergeable result, under every        *)
(* policy and whatever the trees are.                                      *)
(***************************************************************************)
VisibilityGate ==
    lhs.vis # rhs.vis =>
        /\ pc \in {"try_merge_imports", "done"}
        /\ lhs_tree = NoTree /\ rhs_tree = NoTree
        /\ ~result.some

\* refused although the trees are identical and the attributes agree
VisibilityGateWitness ==
    /\ NotMergeable
    /\ lhs.vis # rhs.vis
    /\ lhs.vis # NoVis /\ rhs.vis # NoVis
    /\ lhs.attrs = rhs.attrs
    /\ lhs.tree = rhs.tree

OneCombinesAnyTwo ==
    (pc = "done" /\ merge = "One" /\ GateOpen)
        => result.some

(***************************************************************************)
(* C7  Policy Crate combines declarations sharing a prefix: every call of  *)
(* try_merge_imports under Crate whose declarations pass the gate and      *)
(* whose tree paths have the same first segment returns a merged           *)
(* declaration.                                                            *)
(***************************************************************************)
CrateCombinesCommonPrefix ==
    (/\ pc = "done" /\ merge = "Crate"
     /\ GateOpen
     /\ ~NoCommonPrefix(lhs.tree, rhs.tree))
        => result.some

(***************************************************************************)
(* C8  The flatten fallback is used only under One: under Crate and Module *)
(* merge_trees_into_one never succeeds, and a call on two trees without a  *)
(* common first segment (or with a tree that has no path) ends             *)
(* not-mergeable.                                                          *)
(***************************************************************************)
FlattenOnlyUnderOne ==
    merge # "One" =>
        /\ pc # "return_one"
        /\ (pc = "done" /\ NoCommonPrefix(lhs.tree, rhs.tree)) => ~result.some

\* two paths from different crates, which the fallback could put in a list
FlattenOnlyUnderOneWitness ==
    /\ NotMergeable
    /\ merge = "Crate"
    /\ lhs_tree # NoTree
    /\ IsBarePath(lhs.tree) /\ IsBarePath(rhs.tree)
    /\ lhs.tree.path[1] # rhs.tree.path[1]

(***************************************************************************)
(* C9  Module policy, same module: p::x merged with p::y (p not empty,     *)
(* x # y, both plain paths) under Module returns p::{x, y}.                *)
(***************************************************************************)
ModuleSameModule ==
    (pc = "done" /\ merge = "Module" /\ GateOpen /\ SameModule(lhs.tree, rhs.tree))
        => /\ result.some
           /\ LET n == Len(lhs.tree.path)
              IN  result.value.tree
                      = Group(SubSeq(lhs.tree.path, 1, n - 1),
                              <<Leaf(<<lhs.tree.path[n]>>), Leaf(<<rhs.tree.path[n]>>)>>)

\* a::b::b with a::b::a: the new entry goes after the old one
ModuleSameModuleWitness ==
    /\ Returned
    /\ merge = "Module"
    /\ SameModule(lhs.tree, rhs.tree)
    /\ Len(lhs.tree.path) = 3
    /\ path_segment_cmp(lhs.tree.path[3], rhs.tree.path[3]) = "Greater"

(***************************************************************************)
(* C10  (as claimed) Merging two three-segment plain paths that differ in  *)
(* the last segment only, as a::b::c and a::b::d, under Module is          *)
(* not-mergeable.                                                          *)
(***************************************************************************)
ModuleRejectsLongPaths ==
    (/\ pc = "done" /\ merge = "Module" /\ GateOpen
     /\ SameModule(lhs.tree, rhs.tree) /\ Len(lhs.tree.path) = 3)
        => ~result.some

(***************************************************************************)
(* C10  (amended) Merging a::b::c with a::b::d under Module succeeds       *)
(* although neither path is a single segment: the result has the common    *)
(* prefix a::b as its path and every child of it is eligible under Module. *)
(***************************************************************************)
ModuleAcceptsLongPaths ==
    (/\ pc = "done" /\ merge = "Module" /\ GateOpen
     /\ SameModule(lhs.tree, rhs.tree) /\ Len(lhs.tree.path) = 3)
        => /\ ~is_tree_allowed("Module", lhs.tree)
           /\ ~is_tree_allowed("Module", rhs.tree)
           /\ result.some
           /\ result.value.tree.path = SubSeq(lhs.tree.path, 1, 2)
           /\ Len(result.value.tree.use_trees) = 2
           /\ \A i \in 1..2 : is_tree_allowed("Module", result.value.tree.use_trees[i])

ModuleAcceptsLongPathsWitness ==
    /\ Returned
    /\ merge = "Module"
    /\ lhs.tree = Leaf(<<Seg("a"), Seg("b"), Seg("a")>>)
    /\ rhs.tree = Leaf(<<Seg("a"), Seg("b"), Seg("b")>>)

(***************************************************************************)
(* Helpers of the claims about shapes                                      *)
(***************************************************************************)
\* the number of leading segments two paths share
RECURSIVE shared_run(_, _)
shared_run(p, q) ==
    IF p = NoPath \/ q = NoPath \/ Head(p) # Head(q) THEN 0
    ELSE 1 + shared_run(Tail(p), Tail(q))

\* two plain paths with a common prefix after which at least one of them
\* goes on for more than one segment
DifferentModule(t, u) ==
    /\ IsBarePath(t) /\ IsBarePath(u)
    /\ shared_run(t.path, u.path) >= 1
    /\ \/ Len(t.path) - shared_run(t.path, u.path) > 1
       \/ Len(u.path) - shared_run(t.path, u.path) > 1

\* the number of leaves of a tree
RECURSIVE SumLeaves(_, _)
RECURSIVE leaf_count(_)
SumLeaves(ts, i) ==
    IF i > Len(ts) THEN 0 ELSE leaf_count(ts[i]) + SumLeaves(ts, i + 1)

leaf_count(t) == IF t.has_list THEN SumLeaves(t.use_trees, 1) ELSE 1

\* every child of every group of the tree is eligible under Module
RECURSIVE module_flat(_)
module_flat(t) ==
    \A i \in 1..Len(t.use_trees) :
        /\ is_tree_allowed("Module", t.use_trees[i])
        /\ module_flat(t.use_trees[i])

(***************************************************************************)
(* C11  Module policy, different modules: two plain paths whose longest    *)
(* common prefix leaves more than one segment on at least one side are     *)
(* not-mergeable under Module.                                             *)
(***************************************************************************)
ModuleDifferentModule ==
    (/\ pc = "done" /\ merge = "Module" /\ GateOpen
     /\ DifferentModule(lhs.tree, rhs.tree))
        => ~result.some

\* a::b::x with a::a::y, the common prefix being a alone; the working copies
\* were split at a before the refusal
ModuleDifferentModuleWitness ==
    /\ NotMergeable
    /\ merge = "Module"
    /\ DifferentModule(lhs.tree, rhs.tree)
    /\ Len(lhs.tree.path) = 3 /\ Len(rhs.tree.path) = 3
    /\ shared_run(lhs.tree.path, rhs.tree.path) = 1
    /\ lhs_tree # NoTree
    /\ lhs_tree.tree.has_list

(***************************************************************************)
(* C12  (as claimed) Flatten fallback shape: under One, for two trees      *)
(* without a common prefix, each a group or a plain path, the result is a  *)
(* group without a path whose children are lhs's entries followed by rhs's *)
(* entries, a group giving its children and a plain path giving itself.    *)
(***************************************************************************)
claimed_entries(t) == IF t.has_list THEN t.use_trees ELSE <<t>>

FlattenShape ==
    (/\ pc = "done" /\ merge = "One" /\ GateOpen
     /\ NoCommonPrefix(lhs.tree, rhs.tree)
     /\ lhs.tree.has_list \/ IsBarePath(lhs.tree)
     /\ rhs.tree.has_list \/ IsBarePath(rhs.tree))
        => /\ result.some
           /\ result.value.tree
                = Group(NoPath, claimed_entries(lhs.tree) \o claimed_entries(rhs.tree))

(***************************************************************************)
(* C12  (amended) Under One, for two trees without a common prefix, each a *)
(* group or a plain path, the result is a group without a path whose       *)
(* children are lhs's entries followed by rhs's entries: a side that has a *)
(* path, a group with a prefix path included, gives itself as one entry,   *)
(* and only a group without a path gives its children.                     *)
(***************************************************************************)
flatten_entries(t) == IF t.path # NoPath THEN <<t>> ELSE t.use_trees

FlattenShapeByPath ==
    (/\ pc = "done" /\ merge = "One" /\ GateOpen
     /\ NoCommonPrefix(lhs.tree, rhs.tree)
     /\ lhs.tree.has_list \/ IsBarePath(lhs.tree)
     /\ rhs.tree.has_list \/ IsBarePath(rhs.tree))
        => /\ result.some
           /\ result.value.tree
                = Group(NoPath, flatten_entries(lhs.tree) \o flatten_entries(rhs.tree))

\* a group with a prefix path and two children, and a plain path of another
\* crate: the result has two entries, not three
FlattenShapeByPathWitness ==
    /\ Returned
    /\ merge = "One"
    /\ NoCommonPrefix(lhs.tree, rhs.tree)
    /\ lhs.tree.has_list /\ lhs.tree.path # NoPath
    /\ Len(lhs.tree.use_trees) = 2
    /\ IsBarePath(rhs.tree)
    /\ Len(result.value.tree.use_trees) = 2

(***************************************************************************)
(* C13  (as claimed) Self-absorption: merging the plain path a::x with the *)
(* group a::{self, x::y} succeeds and yields exactly a::{self, x::y}.      *)
(***************************************************************************)
SelfAbsorptionCase ==
    /\ IsBarePath(lhs.tree) /\ Len(lhs.tree.path) = 2
    /\ rhs.tree \in SelfGroupTrees
    /\ lhs.tree.path[1] = rhs.tree.path[1]
    /\ lhs.tree.path[2] = rhs.tree.use_trees[2].path[1]

SelfAbsorption ==
    (pc = "done" /\ GateOpen /\ SelfAbsorptionCase)
        => /\ result.some
           /\ result.value.tree = rhs.tree

(***************************************************************************)
(* C13  (amended) Merging the plain path a::x with the group               *)
(* a::{self, x::y} keeps the plain x entry: under One and Crate the result *)
(* is a::{x::{self, y}, self}, which denotes a, a::x and a::x::y; under    *)
(* Module the two are not-mergeable.                                       *)
(***************************************************************************)
SelfAbsorptionKeepsBare ==
    (pc = "done" /\ GateOpen /\ SelfAbsorptionCase)
        => IF merge = "Module" THEN ~result.some
           ELSE /\ result.some
                /\ LET x == lhs.tree.path[2]
                       y == rhs.tree.use_trees[2].path[2]
                   IN  result.value.tree
                         = Group(<<lhs.tree.path[1]>>,
                                 << Group(<<x>>, <<Leaf(<<SelfSeg>>), Leaf(<<y>>)>>),
                                    Leaf(<<SelfSeg>>) >>)

\* a::b with a::{self, b::a} under Crate
SelfAbsorptionKeepsBareWitness ==
    /\ Returned
    /\ merge = "Crate"
    /\ SelfAbsorptionCase
    /\ lhs.tree.path[2] = Seg("b")
    /\ denoted_paths(result.value.tree)
         = {<<"a">>, <<"a", "b">>, <<"a", "b", "a">>}

(***************************************************************************)
(* C14  Idempotent dedup: merging a declaration (a plain path, a glob or a *)
(* group, with a path and without a leading `::`) with itself under Crate  *)
(* or Module succeeds, and the result denotes the same paths as the        *)
(* declaration and has no leaf twice.                                      *)
(***************************************************************************)
WellFormedDecl(t) ==
    /\ t.path # NoPath
    /\ ~t.coloncolon /\ \A i \in 1..Len(t.path) : ~t.path[i].coloncolon
    /\ ~(t.star /\ t.has_list)

IdempotentDedup ==
    (/\ pc = "done" /\ merge \in {"Crate", "Module"}
     /\ lhs = rhs /\ WellFormedDecl(lhs.tree))
        => /\ result.some
           /\ denoted_paths(result.value.tree) = denoted_paths(lhs.tree)
           /\ leaf_count(result.value.tree)
                = Cardinality(denoted_paths(result.value.tree))

(***************************************************************************)
(* C15  No partial merge leaks into a result: when the flatten fallback    *)
(* succeeds, its tree is the one merge_trees_into_one builds from the      *)
(* caller's unmodified trees.                                              *)
(***************************************************************************)
NoPartialMergeLeaks ==
    pc = "return_one"
        => lhs_tree.tree = merge_trees_into_one(lhs.tree, rhs.tree, merge).lhs

(***************************************************************************)
(* C16  Module never produces nested groups: a tree returned by a merge    *)
(* under Module of two trees whose groups hold Module-eligible children    *)
(* only has Module-eligible children only.                                 *)
(***************************************************************************)
ModuleNeverNests ==
    (/\ Returned /\ merge = "Module"
     /\ module_flat(lhs.tree) /\ module_flat(rhs.tree))
        => module_flat(result.value.tree)

(***************************************************************************)
(* C17  The precondition of recursive_merge: when a child lhs has at the   *)
(* start of the call is not allowed by the policy, the call returns None,  *)
(* both trees stay as they were at the start of the call, and the loop     *)
(* over rhs's children is never entered (no vector, no iterator).          *)
(***************************************************************************)
HasIneligibleChild ==
    \E i \in 1..Len(lhs.tree.use_trees) :
        ~is_tree_allowed(merge, lhs.tree.use_trees[i])

RecursiveMergePrecondition ==
    HasIneligibleChild =>
        /\ pc \in {"recursive_merge", "done"}
        /\ ~result.some
        /\ lhs_tree.tree = lhs.tree
        /\ rhs_tree.tree = rhs.tree
        /\ use_trees = << >>
        /\ pos = 0

\* a call that returned because of a two-segment child of lhs, although
\* every child of rhs is allowed and the first of them is new to lhs
RecursiveMergePreconditionWitness ==
    /\ pc = "done"
    /\ merge = "Module"
    /\ HasIneligibleChild
    /\ \E i \in 1..Len(lhs.tree.use_trees) :
          ~lhs.tree.use_trees[i].has_list /\ Len(lhs.tree.use_trees[i].path) = 2
    /\ rhs.tree.use_trees # << >>
    /\ \A i \in 1..Len(rhs.tree.use_trees) :
          is_tree_allowed(merge, rhs.tree.use_trees[i])
    /\ \A i \in 1..Len(lhs.tree.use_trees) :
          path_cmp_bin_search(lhs.tree.use_trees[i].path,
                              rhs.tree.use_trees[1].path) # "Equal"

(***************************************************************************)
(* C19  The binary search is sound for the sorted children: for the paths  *)
(* of any two children, if the first is not after the second in the sort   *)
(* order (path_cmp_for_sort) then it is not after it in the search-key     *)
(* order (path_cmp_bin_search); and in every pass of the loop, when the    *)
(* binary search reports no match, no child of lhs has a search key equal  *)
(* to that of the child of rhs at hand.                                    *)
(***************************************************************************)
ChildPaths ==
    {lhs_tree.tree.use_trees[i].path : i \in 1..Len(lhs_tree.tree.use_trees)}
      \cup {rhs_tree.tree.use_trees[i].path : i \in 1..Len(rhs_tree.tree.use_trees)}

SearchKeySound ==
    /\ \A p \in ChildPaths, q \in ChildPaths :
          path_cmp_for_sort(p, q) # "Greater" => path_cmp_bin_search(p, q) # "Greater"
    /\ (pc = "for" /\ pos <= Len(rhs_tree.tree.use_trees)) =>
          LET rhs_t == rhs_tree.tree.use_trees[pos]
              search == binary_search_by(use_trees, lhs_tree.tree.use_trees,
                                         rhs_t.path)
          IN  ~search.found =>
                \A i \in 1..Len(lhs_tree.tree.use_trees) :
                    path_cmp_bin_search(lhs_tree.tree.use_trees[i].path,
                                        rhs_t.path) # "Equal"

\* the second search of a call, after a child of rhs was inserted: no match
\* among three children, the place found lying between two of them
SearchKeySoundWitness ==
    /\ pc = "for"
    /\ pos <= Len(rhs_tree.tree.use_trees)
    /\ Len(lhs.tree.use_trees) = 2
    /\ Len(use_trees) = 3
    /\ LET search == binary_search_by(use_trees, lhs_tree.tree.use_trees,
                                      rhs_tree.tree.use_trees[pos].path)
       IN  ~search.found /\ search.idx > 1 /\ search.idx <= 3

(***************************************************************************)
(* C18  common_prefix returns the longest shared leading run: it returns   *)
(* nothing exactly when the first segments differ in text; otherwise it    *)
(* returns the leading k segments of each path for one k >= 1, the two     *)
(* runs agree segment by segment, and either k is the length of the        *)
(* shorter path or the segments after the run differ.                      *)
(***************************************************************************)
CommonPrefixLongestRun ==
    pc = "common_prefix: return" =>
        LET L == lhs.path
            R == rhs.path
            shorter == IF Len(L) <= Len(R) THEN Len(L) ELSE Len(R)
        IN  /\ ~result.some <=> L[1] # R[1]
            /\ result.some =>
                 \E k \in 1..shorter :
                     /\ result.value[1] = SubSeq(L, 1, k)
                     /\ result.value[2] = SubSeq(R, 1, k)
                     /\ \A i \in 1..k : result.value[1][i] = result.value[2][i]
                     /\ k = shorter \/ L[k + 1] # R[k + 1]

\* two rooted paths of three segments that part at the third
CommonPrefixLongestRunWitness ==
    /\ pc = "common_prefix: return"
    /\ result.some
    /\ Len(lhs.path) = 3 /\ Len(rhs.path) = 3
    /\ lhs.path[1].coloncolon
    /\ Len(result.value[1]) = 2
    /\ lhs.path[3] # rhs.path[3]

(***************************************************************************)
(* C20  (as claimed) use_tree_path_cmp compares segment by segment by      *)
(* text and the first differing segment decides (between two names, the    *)
(* smaller text is Less); when one path is a strict prefix of the other,   *)
(* the one that ends early is Less without a tree list and Greater with    *)
(* one; paths with identical segments compare Equal.                       *)
(***************************************************************************)
Shorter == IF Len(lhs.path) <= Len(rhs.path) THEN Len(lhs.path) ELSE Len(rhs.path)

\* what the has_tl flags decide when the shorter path is used up
EndsEarly ==
    IF Len(lhs.path) < Len(rhs.path)
    THEN (IF lhs.has_tl THEN "Greater" ELSE "Less")
    ELSE IF Len(lhs.path) > Len(rhs.path)
    THEN (IF rhs.has_tl THEN "Less" ELSE "Greater")
    ELSE "Equal"

PrefixTieBreakByText ==
    pc = "use_tree_path_cmp: return" =>
        LET differing == {i \in 1..Shorter : lhs.path[i] # rhs.path[i]}
        IN  IF differing # {}
            THEN LET i == CHOOSE j \in differing : \A m \in differing : j <= m
                 IN  /\ result.value # "Equal"
                     /\ (IsNameKind(lhs.path[i]) /\ IsNameKind(rhs.path[i])) =>
                          (result.value = "Less"
                             <=> TextRank(lhs.path[i].name) < TextRank(rhs.path[i].name))
            ELSE result.value = EndsEarly

(***************************************************************************)
(* C20  (amended) use_tree_path_cmp compares segment by segment, a plain   *)
(* name by its text and a segment that is not a plain name (self, crate)   *)
(* as equal to every other such segment and before every plain name; the   *)
(* first pair of segments that does not compare equal decides; when the    *)
(* shorter path is used up first, the path that ends early is Less without *)
(* a tree list and Greater with one; otherwise the result is Equal.        *)
(***************************************************************************)
SegKey(seg) == IF IsNameKind(seg) THEN TextRank(seg.name) ELSE 0

PrefixTieBreakByName ==
    pc = "use_tree_path_cmp: return" =>
        LET differing == {i \in 1..Shorter :
                             SegKey(lhs.path[i]) # SegKey(rhs.path[i])}
        IN  IF differing # {}
            THEN LET i == CHOOSE j \in differing : \A m \in differing : j <= m
                 IN  result.value
                       = IF SegKey(lhs.path[i]) < SegKey(rhs.path[i])
                         THEN "Less" ELSE "Greater"
            ELSE result.value = EndsEarly

\* crate::a with a tree list against self::a::b: the first segments differ
\* in text and decide nothing, the tree list makes the shorter path Greater
PrefixTieBreakByNameWitness ==
    /\ pc = "use_tree_path_cmp: return"
    /\ lhs.path = <<CrateSeg, Seg("a")>> /\ lhs.has_tl
    /\ rhs.path = <<SelfSeg, Seg("a"), Seg("b")>>
    /\ result.value = "Greater"

=============================================================================
